---- MODULE Spec2Model ----
(***************************************************************************)
(* Model of the dataset preparation pipeline, load_data() in                *)
(* data_loader.py (app.py holds a copy of the same routine).                *)
(*                                                                          *)
(* A table is a sequence of rows; a row is a function from column names to  *)
(* cells.  The events file data.csv holds text; its numeric-bearing cells   *)
(* are sequences of characters.  After pd.to_numeric a numeric cell is      *)
(* <<n>> (the number n) or NaN == <<>> (missing).  A quotient, which pandas *)
(* holds as a float, is kept exactly as <<num, den>> in lowest terms with   *)
(* den > 0; floating-point rounding is not modelled.  A date is <<y, m, d>> *)
(* or NaT == <<>>.  Text cells (country, disaster type) are strings, with   *)
(* the empty string for a missing cell.                                     *)
(***************************************************************************)
EXTENDS Integers, Sequences, FiniteSets, TLC

VARIABLES
    data_csv,        \* rows of data.csv, as text
    columns,         \* header of data.csv: the columns the file has
    portfolio_csv,   \* rows of euroshield_portfolio_by_country.csv
    premium_csv,     \* rows of euroshield_premium_by_peril.csv
    pc,              \* position inside load_data
    data,            \* local `data` of load_data
    portfolio,       \* local `portfolio` of load_data
    premium_by_peril,\* local `premium_by_peril` of load_data
    max_deaths,      \* local severity denominators (0 until assigned)
    max_affected,
    max_damage,
    merged_data,     \* local `merged_data` of load_data
    cache,           \* the st.cache_data store of this process: key -> value
    calls,           \* calls of load_data() made by the page script so far
    filtered_data,   \* 1_Overview.py: merged_data narrowed by the page's filters
    peril_analysis,  \* frame drawn by render_q4_peril_analyses
    selected_country,\* st.session_state.selected_country
    alignment,       \* frame drawn by render_country_deep_dive
    app_pc,          \* app.py: start, returned or KeyError of its load_data
    app_outputs,     \* app.py: the tuple its load_data returned
    app_filtered_data, \* app.py: its filter choices and its filtered_data
    page,            \* the page script the session runs
    map_click,       \* last_object_clicked_popup of the map in the last run
    shown,           \* what the last run of a page script rendered
    year_range,      \* value of the year slider in the last run
    peril_coverage,  \* value of the coverage select box in the last run
    selected_peril,  \* st.session_state.selected_peril
    selected_month   \* st.session_state.selected_month

\* data, portfolio, premium_by_peril and merged_data are also the names the
\* calling page binds the returned tuple to; every name keeps the value last
\* assigned to it.
vars == <<data_csv, columns, portfolio_csv, premium_csv, pc, data, portfolio,
          premium_by_peril, max_deaths, max_affected, max_damage, merged_data,
          cache, calls, filtered_data, peril_analysis, selected_country,
          alignment, app_pc, app_outputs, app_filtered_data, page, map_click,
          shown, year_range, peril_coverage, selected_peril, selected_month>>

(***************************************************************************)
(* Bounds of the model.                                                     *)
(***************************************************************************)
MaxRows == 2
MaxCalls == 2

(***************************************************************************)
(* Cells.                                                                   *)
(***************************************************************************)
NaN == <<>>
NaT == <<>>
NaNText == ""
Unset == <<>>

\* st.session_state has no key at the start of a session
Absent == "(absent)"
None == <<>>

IsNaN(v) == Len(v) = 0
Num(n) == <<n>>
Val(v) == v[1]

\* Series.fillna(0) on one cell
fillna0(v) == IF IsNaN(v) THEN Num(0) ELSE v

Abs(n) == IF n < 0 THEN -n ELSE n

RECURSIVE GCD(_, _)
GCD(a, b) == IF b = 0 THEN a ELSE GCD(b, a % b)

\* the float quotient n / d, kept exact; pandas yields NaN for 0/0 and an
\* infinity for n/0, neither of which is a finite number
Quot(n, d) ==
    IF d = 0 THEN NaN
    ELSE LET g == GCD(Abs(n), Abs(d))
             s == IF d < 0 THEN -1 ELSE 1
         IN  <<(s * n) \div g, (s * d) \div g>>

RatAdd(p, q) ==
    IF IsNaN(p) \/ IsNaN(q) THEN NaN
    ELSE Quot(p[1] * q[2] + q[1] * p[2], p[2] * q[2])

RatScale(p, k) == IF IsNaN(p) THEN NaN ELSE Quot(p[1] * k, p[2])

RatLess(p, q) == p[1] * q[2] < q[1] * p[2]

\* Series.clip(lower, upper) on one cell; NaN stays NaN
clip(p, lower, upper) ==
    IF IsNaN(p) THEN NaN
    ELSE IF RatLess(p, Quot(lower, 1)) THEN Quot(lower, 1)
    ELSE IF RatLess(Quot(upper, 1), p) THEN Quot(upper, 1)
    ELSE p

(***************************************************************************)
(* pd.read_csv / pd.to_numeric(errors='coerce') on the text of one cell:    *)
(* a decimal integer parses to its value, anything else becomes NaN.        *)
(***************************************************************************)
DigitVal ==
    [c \in {"0", "1", "2", "3", "4", "5", "6", "7", "8", "9"} |->
        CASE c = "0" -> 0 [] c = "1" -> 1 [] c = "2" -> 2 [] c = "3" -> 3
          [] c = "4" -> 4 [] c = "5" -> 5 [] c = "6" -> 6 [] c = "7" -> 7
          [] c = "8" -> 8 [] c = "9" -> 9]

IsDigits(s) == Len(s) > 0 /\ \A i \in 1..Len(s) : s[i] \in DOMAIN DigitVal

RECURSIVE ParseNat(_)
ParseNat(s) ==
    IF Len(s) = 0 THEN 0
    ELSE 10 * ParseNat(SubSeq(s, 1, Len(s) - 1)) + DigitVal[s[Len(s)]]

\* the longest prefix of s made of digits
RECURSIVE DigitPrefix(_)
DigitPrefix(s) ==
    IF Len(s) = 0 \/ s[1] \notin DOMAIN DigitVal THEN <<>>
    ELSE <<s[1]>> \o DigitPrefix(Tail(s))

\* a lenient parse that reads the leading digits and ignores the rest
to_numeric_prefix(s) ==
    IF Len(DigitPrefix(s)) = 0 THEN NaN ELSE Num(ParseNat(DigitPrefix(s)))

to_numeric(s) ==
    IF Len(s) = 0 THEN NaN
    ELSE IF s[1] = "-" /\ IsDigits(Tail(s)) THEN Num(-ParseNat(Tail(s)))
    ELSE IF IsDigits(s) THEN Num(ParseNat(s))
    ELSE NaN

(***************************************************************************)
(* Column names of data.csv that load_data touches.  "No. Homeless" stands  *)
(* for the columns that are only coerced and never read afterwards          *)
(* (No. Affected, No. Homeless, Total Damage, Insured Damage, ...).         *)
(***************************************************************************)
DamageAdjusted == "Total Damage, Adjusted ('000 US$)"

numeric_cols ==
    {"Total Deaths", "No. Injured", "No. Homeless", "Total Affected",
     DamageAdjusted,
     "Start Year", "Start Month", "Start Day",
     "End Year", "End Month", "End Day"}

AllColumns == numeric_cols \cup {"Disaster Type", "Country"}

\* df[col] = ...: add or overwrite columns of one row
Assign(row, new) == new @@ row

(***************************************************************************)
(* Lines 24-26: for col in numeric_cols: if col in data.columns: coerce.    *)
(***************************************************************************)
CoerceRow(row) ==
    [c \in DOMAIN row |-> IF c \in numeric_cols THEN to_numeric(row[c]) ELSE row[c]]

(***************************************************************************)
(* Lines 29-34 and 43-45: pd.to_datetime(frame of year/month/day,           *)
(* errors='coerce').  The three components are combined arithmetically      *)
(* (year*10000 + month*100 + day), so a NaN component makes the whole date  *)
(* NaT; a combination that is no calendar date is coerced to NaT.           *)
(***************************************************************************)
IsLeap(y) == (y % 4 = 0 /\ y % 100 # 0) \/ y % 400 = 0

DaysInMonth(y, m) ==
    IF m = 2 THEN (IF IsLeap(y) THEN 29 ELSE 28)
    ELSE IF m \in {4, 6, 9, 11} THEN 30 ELSE 31

IsCalendarDate(y, m, d) ==
    /\ y \in 1678..2261
    /\ m \in 1..12
    /\ d \in 1..DaysInMonth(y, m)

\* date assembly that fills a missing component with 1
to_datetime_fill1(y, m, d) ==
    LET f(v) == IF IsNaN(v) THEN 1 ELSE Val(v)
    IN  IF IsNaN(y) THEN NaT
        ELSE IF IsCalendarDate(Val(y), f(m), f(d)) THEN <<Val(y), f(m), f(d)>>
        ELSE NaT

\* date assembly that invents the year 2000 for a missing year
to_datetime_default_year(y, m, d) ==
    IF IsNaN(m) \/ IsNaN(d) THEN NaT
    ELSE LET yy == IF IsNaN(y) THEN 2000 ELSE Val(y)
         IN  IF IsCalendarDate(yy, Val(m), Val(d)) THEN <<yy, Val(m), Val(d)>> ELSE NaT

to_datetime(y, m, d) ==
    IF IsNaN(y) \/ IsNaN(m) \/ IsNaN(d) THEN NaT
    ELSE IF IsCalendarDate(Val(y), Val(m), Val(d)) THEN <<Val(y), Val(m), Val(d)>>
    ELSE NaT

month_names ==
    <<"January", "February", "March", "April", "May", "June", "July",
      "August", "September", "October", "November", "December">>

\* Series.dt.month_name() on one cell
month_name(date) == IF IsNaN(date) THEN NaNText ELSE month_names[date[2]]

RECURSIVE DaysBeforeMonth(_, _)
DaysBeforeMonth(y, m) ==
    IF m = 1 THEN 0 ELSE DaysBeforeMonth(y, m - 1) + DaysInMonth(y, m - 1)

\* proleptic Gregorian ordinal of a date
Ordinal(date) ==
    LET y == date[1] - 1
    IN  365 * y + (y \div 4) - (y \div 100) + (y \div 400)
        + DaysBeforeMonth(date[1], date[2]) + date[3]

\* a duration with fillna(0): 0 when a date does not resolve
DurationOrZero(end, start) ==
    IF IsNaN(end) \/ IsNaN(start) THEN Num(0)
    ELSE Num(Ordinal(end) - Ordinal(start))

\* (end - start).dt.days on one row
DurationDays(end, start) ==
    IF IsNaN(end) \/ IsNaN(start) THEN NaN
    ELSE Num(Ordinal(end) - Ordinal(start))

DateRow(row) ==
    LET date == to_datetime(row["Start Year"], row["Start Month"], row["Start Day"])
    IN  Assign(row, [c \in {"date", "month", "month_name", "year"} |->
            CASE c = "date" -> date
              [] c = "month" -> row["Start Month"]
              [] c = "month_name" -> month_name(date)
              [] c = "year" -> row["Start Year"]])

DurationRow(row) ==
    Assign(row, [c \in {"duration_days"} |->
        DurationDays(to_datetime(row["End Year"], row["End Month"], row["End Day"]),
                     row["date"])])

\* a maximum taken over the rows of portfolio countries only, as if the
\* country filter came first
ColMaxCovered(rows, col) ==
    LET present == {i \in 1..Len(rows) :
                        /\ ~IsNaN(rows[i][col])
                        /\ \E j \in 1..Len(portfolio) :
                                portfolio[j]["country"] = rows[i]["Country"]}
    IN  IF present = {} THEN NaN
        ELSE Num(CHOOSE v \in {Val(rows[i][col]) : i \in present} :
                    \A i \in present : Val(rows[i][col]) <= v)

(***************************************************************************)
(* Series.max(): the largest non-missing value, NaN when there is none.     *)
(***************************************************************************)
ColMax(rows, col) ==
    LET present == {i \in 1..Len(rows) : ~IsNaN(rows[i][col])}
    IN  IF present = {} THEN NaN
        ELSE Num(CHOOSE v \in {Val(rows[i][col]) : i \in present} :
                    \A i \in present : Val(rows[i][col]) <= v)

\* a denominator that only guards against zero
DenominatorNonZero(m) == IF ~IsNaN(m) /\ Val(m) # 0 THEN Val(m) ELSE 1

\* lines 56, 61-64: `col.max() if col.max() > 0 else 1` (NaN > 0 is False)
Denominator(m) == IF ~IsNaN(m) /\ Val(m) > 0 THEN Val(m) ELSE 1

\* one term of the score: col.fillna(0) / max * weight
Term(v, max, weight) == RatScale(Quot(Val(fillna0(v)), max), weight)

(***************************************************************************)
(* Lines 48-57: derived fields for the deep dive.                           *)
(***************************************************************************)
DerivedRow(row, max_adj_damage) ==
    LET hours == Val(fillna0(row["duration_days"])) * 24
    IN  Assign(row,
          [c \in {"total_casualties", "response_time_hours",
                  "infrastructure_damage_score"} |->
            CASE c = "total_casualties" ->
                    Num(Val(fillna0(row["Total Deaths"])) + Val(fillna0(row["No. Injured"])))
              [] c = "response_time_hours" -> Num(IF hours < 1 THEN 1 ELSE hours)
              [] c = "infrastructure_damage_score" ->
                    Term(row[DamageAdjusted], max_adj_damage, 10)])

\* the score without its final clip
SeverityNoClip(row, md, ma, mg) ==
    RatAdd(RatAdd(Term(row["Total Deaths"], md, 3),
                  Term(row["Total Affected"], ma, 3)),
           Term(row[DamageAdjusted], mg, 4))

\* the score with the damage weight of the other two terms
SeverityEqualWeights(row, md, ma, mg) ==
    clip(RatAdd(RatAdd(Term(row["Total Deaths"], md, 3),
                       Term(row["Total Affected"], ma, 3)),
                Term(row[DamageAdjusted], mg, 3)),
         0, 10)

\* the score clamped to [1, 10]
SeverityClipFromOne(row, md, ma, mg) ==
    clip(RatAdd(RatAdd(Term(row["Total Deaths"], md, 3),
                       Term(row["Total Affected"], ma, 3)),
                Term(row[DamageAdjusted], mg, 4)),
         1, 10)

(***************************************************************************)
(* Lines 66-70: the severity score of one row.                              *)
(***************************************************************************)
SeverityOf(row, md, ma, mg) ==
    clip(RatAdd(RatAdd(Term(row["Total Deaths"], md, 3),
                       Term(row["Total Affected"], ma, 3)),
                Term(row[DamageAdjusted], mg, 4)),
         0, 10)

(***************************************************************************)
(* Lines 73-86: the lookup table and Series.map(...).fillna(raw).           *)
(***************************************************************************)
disaster_type_mapping ==
    [k \in {"Flood", "Storm", "Extreme temperature", "Wildfire", "Drought",
            "Earthquake", "Mass movement (wet)", "Mass movement (dry)",
            "Volcanic activity", "Landslide"} |->
        CASE k = "Flood" -> "Flood"
          [] k = "Storm" -> "Hurricane"
          [] k = "Extreme temperature" -> "Heatwave"
          [] k = "Wildfire" -> "Wildfire"
          [] k = "Drought" -> "Drought"
          [] k = "Earthquake" -> "Earthquake"
          [] k = "Mass movement (wet)" -> "Landslide"
          [] k = "Mass movement (dry)" -> "Landslide"
          [] k = "Volcanic activity" -> "Volcanic"
          [] k = "Landslide" -> "Landslide"]

\* Series.map(dict) on one cell: NaN for a value that is no key
MapLookup(raw) ==
    IF raw \in DOMAIN disaster_type_mapping THEN disaster_type_mapping[raw]
    ELSE NaNText

\* the lookup without the fillna(raw) fallback
EventTypeNoFallback(raw) == MapLookup(raw)

\* a lookup whose table sends Landslide back to a raw name
EventTypeLandslideRaw(raw) ==
    IF raw = "Landslide" THEN "Mass movement (wet)"
    ELSE IF MapLookup(raw) = NaNText THEN raw ELSE MapLookup(raw)

EventTypeOf(raw) ==
    LET mapped == MapLookup(raw)
    IN  IF mapped = NaNText THEN raw ELSE mapped

\* the scaling without fillna(0)
EconomicImpactNoFill(row) ==
    IF IsNaN(row[DamageAdjusted]) THEN NaN ELSE Quot(Val(row[DamageAdjusted]), 1000)

\* an index that starts at 1
IndexFromOne(i) == i

\* line 89
EconomicImpactOf(row) == Quot(Val(fillna0(row[DamageAdjusted])), 1000)

\* an index that gives two consecutive rows the same number
IndexByPairs(i) == (i - 1) \div 2

\* line 92: data.index of a freshly read frame is RangeIndex(0..n-1)
IndexOf(i) == i - 1

(***************************************************************************)
(* Lines 95-98: the country filter and the rename.                          *)
(***************************************************************************)
\* a filter that keeps every row
isinAlways(value, rows, col) == TRUE

isin(value, rows, col) == \E j \in 1..Len(rows) : rows[j][col] = value

RenameCountry(row) ==
    [c \in (DOMAIN row \ {"Country"}) \cup {"country"} |->
        IF c = "country" THEN row["Country"] ELSE row[c]]

(***************************************************************************)
(* Line 101: pd.merge(data, portfolio, on='country', how='inner').  The     *)
(* result keeps the order of the left rows; a left row is repeated once per *)
(* matching right row, in the right table's order.                          *)
(***************************************************************************)
JoinRow(l, r) == l @@ r

\* a join without its key: every right row matches
MatchesAll(l, right) == right

Matches(l, right) == SelectSeq(right, LAMBDA r : r["country"] = l["country"])

RECURSIVE MergeFrom(_, _, _)
MergeFrom(left, right, i) ==
    IF i > Len(left) THEN <<>>
    ELSE LET m == Matches(left[i], right)
         IN  [j \in 1..Len(m) |-> JoinRow(left[i], m[j])]
             \o MergeFrom(left, right, i + 1)

\* how='outer': portfolio rows without an event are kept, event fields missing
MergeOuter(left, right) ==
    LET unmatched == SelectSeq(right,
            LAMBDA r : ~\E i \in 1..Len(left) : left[i]["country"] = r["country"])
    IN  MergeFrom(left, right, 1)
        \o [j \in 1..Len(unmatched) |->
              unmatched[j] @@ [c \in {"severity", "event_type", "event_id",
                                       "economic_impact_million_usd"} |-> NaN]]

merge(left, right) == MergeFrom(left, right, 1)

(***************************************************************************)
(* load_data, statement by statement.  Indexing a column the frame does not *)
(* have raises KeyError, which load_data does not catch.                    *)
(***************************************************************************)
Has(cols) == cols \subseteq columns

Raise ==
    /\ pc' = "KeyError"
    /\ UNCHANGED <<data, portfolio, max_deaths, max_affected, max_damage, merged_data>>

Files == <<data_csv, columns, portfolio_csv, premium_csv>>
Maxes == <<max_deaths, max_affected, max_damage>>
Session == <<cache, calls>>
Pages == <<filtered_data, peril_analysis, selected_country, alignment>>
App == <<app_pc, app_outputs, app_filtered_data>>
Nav == <<page, map_click, shown>>
Widgets == <<year_range, peril_coverage, selected_peril, selected_month>>

\* a key made of the content of the files
cache_key_by_content(csv, cols, pcsv, prem) == <<csv, cols, pcsv, prem>>

\* st.cache_data keys an entry by the function and its arguments; load_data
\* takes none, so every call has the same key, whatever the files hold
cache_key(csv, cols, pcsv, prem) == "load_data"

\* a lookup that hands the merged table out under the name of the events
\* table as well
cache_lookup_merged(c, k) == [c[k] EXCEPT !["data"] = c[k]["merged_data"]]

cache_lookup(c, k) == c[k]

\* a return that hands out only the portfolio rows of countries with events
ReturnValueMatchedPortfolio(d, p, pr, m) ==
    LET matched(r) == \E i \in 1..Len(d) : d[i]["country"] = r["country"]
    IN  [data |-> d, portfolio |-> SelectSeq(p, matched),
         premium_by_peril |-> pr, merged_data |-> m]

\* line 103 and the unpacking of the tuple by the calling page
ReturnValue(d, p, pr, m) ==
    [data |-> d, portfolio |-> p, premium_by_peril |-> pr, merged_data |-> m]

\* lines 13-15
ReadCsv ==
    /\ pc = "start"
    /\ cache_key(data_csv, columns, portfolio_csv, premium_csv) \notin DOMAIN cache
    /\ data' = data_csv
    /\ portfolio' = portfolio_csv
    /\ premium_by_peril' = premium_csv
    /\ pc' = "coerce"
    /\ UNCHANGED <<Files, Maxes, merged_data, Session, Pages, App, Nav, Widgets>>

\* line 5: a call whose key is in the store returns the stored value and
\* does not execute the body
CacheHit ==
    /\ pc = "start"
    /\ LET key == cache_key(data_csv, columns, portfolio_csv, premium_csv)
       IN  /\ key \in DOMAIN cache
           /\ LET value == cache_lookup(cache, key)
              IN  /\ data' = value["data"]
                  /\ portfolio' = value["portfolio"]
                  /\ premium_by_peril' = value["premium_by_peril"]
                  /\ merged_data' = value["merged_data"]
    /\ pc' = "returned"
    /\ UNCHANGED <<Files, Maxes, Session, Pages, App, Nav, Widgets>>

\* lines 19-26
ToNumeric ==
    /\ pc = "coerce"
    /\ data' = [i \in 1..Len(data) |-> CoerceRow(data[i])]
    /\ pc' = "date"
    /\ UNCHANGED <<Files, portfolio, premium_by_peril, Maxes, merged_data, Session, Pages, App, Nav, Widgets>>

\* lines 29-39
CreateDate ==
    /\ pc = "date"
    /\ IF Has({"Start Year", "Start Month", "Start Day"})
       THEN /\ data' = [i \in 1..Len(data) |-> DateRow(data[i])]
            /\ pc' = "duration"
            /\ UNCHANGED <<portfolio, Maxes, merged_data>>
       ELSE Raise
    /\ UNCHANGED <<Files, premium_by_peril, Session, Pages, App, Nav, Widgets>>

\* lines 42-46
Duration ==
    /\ pc = "duration"
    /\ IF Has({"End Year", "End Month", "End Day"})
       THEN /\ data' = [i \in 1..Len(data) |-> DurationRow(data[i])]
            /\ pc' = "derived"
            /\ UNCHANGED <<portfolio, Maxes, merged_data>>
       ELSE Raise
    /\ UNCHANGED <<Files, premium_by_peril, Session, Pages, App, Nav, Widgets>>

\* lines 50-57
DerivedFields ==
    /\ pc = "derived"
    /\ IF Has({"Total Deaths", "No. Injured", DamageAdjusted})
       THEN /\ LET max_adj_damage == Denominator(ColMax(data, DamageAdjusted))
                   F(row) == DerivedRow(row, max_adj_damage)
               IN  data' = [i \in 1..Len(data) |-> F(data[i])]
            /\ pc' = "severity"
            /\ UNCHANGED <<portfolio, Maxes, merged_data>>
       ELSE Raise
    /\ UNCHANGED <<Files, premium_by_peril, Session, Pages, App, Nav, Widgets>>

\* lines 61-70
Severity ==
    /\ pc = "severity"
    /\ IF Has({"Total Deaths", "Total Affected", DamageAdjusted})
       THEN /\ max_deaths' = Denominator(ColMax(data, "Total Deaths"))
            /\ max_affected' = Denominator(ColMax(data, "Total Affected"))
            /\ max_damage' = Denominator(ColMax(data, DamageAdjusted))
            /\ LET F(row) ==
                     Assign(row, [c \in {"severity"} |->
                        SeverityOf(row, max_deaths', max_affected', max_damage')])
               IN  data' = [i \in 1..Len(data) |-> F(data[i])]
            /\ pc' = "event_type"
            /\ UNCHANGED <<portfolio, merged_data>>
       ELSE Raise
    /\ UNCHANGED <<Files, premium_by_peril, Session, Pages, App, Nav, Widgets>>

\* lines 73-86
EventType ==
    /\ pc = "event_type"
    /\ IF Has({"Disaster Type"})
       THEN /\ LET F(row) ==
                     Assign(row, [c \in {"event_type"} |-> EventTypeOf(row["Disaster Type"])])
               IN  data' = [i \in 1..Len(data) |-> F(data[i])]
            /\ pc' = "economic"
            /\ UNCHANGED <<portfolio, Maxes, merged_data>>
       ELSE Raise
    /\ UNCHANGED <<Files, premium_by_peril, Session, Pages, App, Nav, Widgets>>

\* line 89
EconomicImpact ==
    /\ pc = "economic"
    /\ IF Has({DamageAdjusted})
       THEN /\ LET F(row) ==
                     Assign(row, [c \in {"economic_impact_million_usd"} |->
                        EconomicImpactOf(row)])
               IN  data' = [i \in 1..Len(data) |-> F(data[i])]
            /\ pc' = "event_id"
            /\ UNCHANGED <<portfolio, Maxes, merged_data>>
       ELSE Raise
    /\ UNCHANGED <<Files, premium_by_peril, Session, Pages, App, Nav, Widgets>>

\* line 92
EventId ==
    /\ pc = "event_id"
    /\ data' = [i \in 1..Len(data) |->
                  Assign(data[i], [c \in {"event_id"} |-> IndexOf(i)])]
    /\ pc' = "filter"
    /\ UNCHANGED <<Files, portfolio, premium_by_peril, Maxes, merged_data, Session, Pages, App, Nav, Widgets>>

\* lines 95-98
CountryFilter ==
    /\ pc = "filter"
    /\ IF Has({"Country"})
       THEN /\ LET keep(row) == isin(row["Country"], portfolio, "country")
               IN  LET kept == SelectSeq(data, keep)
                   IN  data' = [i \in 1..Len(kept) |-> RenameCountry(kept[i])]
            /\ pc' = "merge"
            /\ UNCHANGED <<portfolio, Maxes, merged_data>>
       ELSE Raise
    /\ UNCHANGED <<Files, premium_by_peril, Session, Pages, App, Nav, Widgets>>

\* lines 101-103
Merge ==
    /\ pc = "merge"
    /\ LET value == ReturnValue(data, portfolio, premium_by_peril,
                                merge(data, portfolio))
           key == cache_key(data_csv, columns, portfolio_csv, premium_csv)
       IN  /\ data' = value["data"]
           /\ portfolio' = value["portfolio"]
           /\ premium_by_peril' = value["premium_by_peril"]
           /\ merged_data' = value["merged_data"]
           /\ cache' = [k \in DOMAIN cache \cup {key} |->
                           IF k = key THEN value ELSE cache[k]]
    /\ pc' = "returned"
    /\ UNCHANGED <<Files, Maxes, calls, Pages, App, Nav, Widgets>>

\* the page script runs again (any interaction of the user) and calls
\* load_data() once more
Rerun ==
    /\ pc = "returned"
    /\ calls < MaxCalls
    /\ calls' = calls + 1
    /\ pc' = "start"
    /\ UNCHANGED <<Files, data, portfolio, premium_by_peril, Maxes, merged_data,
                   cache, Pages, App, Nav, Widgets>>

\* the body of load_data as one function of the three files (all columns
\* present): what a call that misses the store computes
load_data(csv, pcsv, prem) ==
    LET n == Len(csv)
        coerced == [i \in 1..n |-> CoerceRow(csv[i])]
        dated == [i \in 1..n |-> DurationRow(DateRow(coerced[i]))]
        adj == Denominator(ColMax(dated, DamageAdjusted))
        derived == [i \in 1..n |-> DerivedRow(dated[i], adj)]
        md == Denominator(ColMax(derived, "Total Deaths"))
        ma == Denominator(ColMax(derived, "Total Affected"))
        mg == Denominator(ColMax(derived, DamageAdjusted))
        scored == [i \in 1..n |->
                     LET row == derived[i]
                         typed == Assign(row, [c \in {"severity", "event_type"} |->
                                    IF c = "severity" THEN SeverityOf(row, md, ma, mg)
                                    ELSE EventTypeOf(row["Disaster Type"])])
                     IN  Assign(typed, [c \in {"economic_impact_million_usd", "event_id"} |->
                            IF c = "event_id" THEN IndexOf(i)
                            ELSE EconomicImpactOf(typed)])]
        keep(row) == isin(row["Country"], pcsv, "country")
        kept == SelectSeq(scored, keep)
        events == [i \in 1..Len(kept) |-> RenameCountry(kept[i])]
    IN  ReturnValue(events, pcsv, prem, merge(events, pcsv))

Next ==
    \/ ReadCsv
    \/ ToNumeric
    \/ CreateDate
    \/ Duration
    \/ DerivedFields
    \/ Severity
    \/ EventType
    \/ EconomicImpact
    \/ EventId
    \/ CountryFilter
    \/ Merge
    \/ CacheHit
    \/ Rerun

(***************************************************************************)
(* The files on disk can be replaced while the process runs.  A change is   *)
(* placed just before a call of load_data(): the removal of the first row   *)
(* of one file.                                                             *)
(***************************************************************************)
EditData ==
    /\ pc = "start"
    /\ Len(data_csv) > 0
    /\ data_csv' = Tail(data_csv)
    /\ UNCHANGED <<columns, portfolio_csv, premium_csv, pc, data, portfolio,
                   premium_by_peril, Maxes, merged_data, Session, Pages, App, Nav, Widgets>>

EditPortfolio ==
    /\ pc = "start"
    /\ Len(portfolio_csv) > 0
    /\ portfolio_csv' = Tail(portfolio_csv)
    /\ UNCHANGED <<data_csv, columns, premium_csv, pc, data, portfolio,
                   premium_by_peril, Maxes, merged_data, Session, Pages, App, Nav, Widgets>>

EditPremium ==
    /\ pc = "start"
    /\ Len(premium_csv) > 0
    /\ premium_csv' = Tail(premium_csv)
    /\ UNCHANGED <<data_csv, columns, portfolio_csv, pc, data, portfolio,
                   premium_by_peril, Maxes, merged_data, Session, Pages, App, Nav, Widgets>>

NextSession ==
    \/ Next
    \/ EditData
    \/ EditPortfolio
    \/ EditPremium

(***************************************************************************)
(* The peril joins of the pages.  pandas orders the keys of a groupby and   *)
(* of an outer merge; SortedPerils is that order on the peril names the     *)
(* model uses.  Premiums are positive, so no quotient is infinite.          *)
(***************************************************************************)
SortedPerils ==
    <<"Drought", "Earthquake", "Epidemic", "Flood", "Foo", "Heatwave",
      "Hurricane", "Landslide", "Storm", "Volcanic", "Wildfire">>

sorted(S) ==
    LET member(p) == p \in S
    IN  SelectSeq(SortedPerils, member)

\* the keys of a groupby or value_counts on event_type: NaN is no key
event_types(rows) == {rows[i]["event_type"] : i \in 1..Len(rows)} \ {NaNText}

group(rows, k) ==
    LET same(r) == r["event_type"] = k
    IN  SelectSeq(rows, same)

column(rows, c) == [i \in 1..Len(rows) |-> rows[i][c]]

RECURSIVE RatSum(_)
RatSum(cells) ==
    IF Len(cells) = 0 THEN Quot(0, 1)
    ELSE RatAdd(Head(cells), RatSum(Tail(cells)))

\* Series.mean(): the mean of the non-missing cells, NaN when there is none
mean(cells) ==
    LET present(v) == ~IsNaN(v)
        kept == SelectSeq(cells, present)
    IN  IF Len(kept) = 0 THEN NaN
        ELSE LET total == RatSum(kept)
             IN  Quot(total[1], total[2] * Len(kept))

fillna0q(v) == IF IsNaN(v) THEN Quot(0, 1) ELSE v

\* the keys of the result of left.merge(right, how=...)
merge_outer_keys(left, right) == left \cup right

\* a left merge that kept the keys of the right side as well
merge_keys_of_both(left, right) == left \cup right

merge_left_keys(left, right) == left

\* 1_Overview.py 233-243: one row per peril of the filtered events and per
\* premium row of that peril
RECURSIVE PerilRows(_, _, _, _)
PerilRows(keys, rows, premiums, years) ==
    IF Len(keys) = 0 THEN <<>>
    ELSE LET k == Head(keys)
             g == group(rows, k)
             peril_data ==
                 [event_type |-> k,
                  severity |-> mean(column(g, "severity")),
                  event_id |-> Num(Len(g)),
                  average_annual_frequency |->
                      IF years > 0 THEN Quot(Len(g), years) ELSE Quot(0, 1)]
             m == group(premiums, k)
             joined ==
                 IF Len(m) = 0
                 THEN <<peril_data @@ [annual_premium_eur_million |-> fillna0(NaN)]>>
                 ELSE [j \in 1..Len(m) |->
                         peril_data @@ [annual_premium_eur_million |->
                             fillna0(m[j]["annual_premium_eur_million"])]]
         IN  joined \o PerilRows(Tail(keys), rows, premiums, years)

PerilAnalysis(rows, premiums) ==
    LET years == Cardinality({rows[i]["year"] : i \in 1..Len(rows)} \ {NaN})
        keys == merge_left_keys(event_types(rows), event_types(premiums))
    IN  PerilRows(sorted(keys), rows, premiums, years)

\* 2_Deep_Dive.py 112-132: one row per peril of the premium table or of the
\* country's events
RECURSIVE AlignmentRows(_, _, _, _, _)
AlignmentRows(keys, rows, premiums, country_premium_total, total_premium_all) ==
    IF Len(keys) = 0 THEN <<>>
    ELSE LET k == Head(keys)
             g == group(rows, k)
             events ==
                 [event_type |-> k,
                  event_count |-> Num(Len(g)),
                  avg_impact |-> fillna0q(mean(column(g, "economic_impact_million_usd")))]
             m == group(premiums, k)
             share(v) ==
                 IF IsNaN(v) THEN NaN
                 ELSE Quot(Val(v) * country_premium_total, total_premium_all)
             joined ==
                 IF Len(m) = 0
                 THEN <<events @@ [premium_million_eur |-> fillna0q(NaN)]>>
                 ELSE [j \in 1..Len(m) |->
                         events @@ [premium_million_eur |->
                             fillna0q(share(m[j]["annual_premium_eur_million"]))]]
         IN  joined \o AlignmentRows(Tail(keys), rows, premiums,
                                     country_premium_total, total_premium_all)

RECURSIVE Sum(_)
Sum(cells) ==
    IF Len(cells) = 0 THEN 0
    ELSE Val(fillna0(Head(cells))) + Sum(Tail(cells))

Alignment(df_country, premiums, country_premium_total) ==
    LET keys == merge_outer_keys(event_types(premiums), event_types(df_country))
    IN  AlignmentRows(sorted(keys), df_country, premiums, country_premium_total,
                      Sum(column(premiums, "annual_premium_eur_million")))

\* 1_Overview.py 677-695 and 764: every filter of the page keeps a selection
\* of the rows of merged_data; the frame is built from what is kept
RenderPerilAnalysis ==
    /\ pc = "returned"
    /\ \E kept \in SUBSET (1..Len(merged_data)) :
          LET selected(i) == i \in kept
              places == SelectSeq([i \in 1..Len(merged_data) |-> i], selected)
          IN  /\ filtered_data' = [j \in 1..Len(places) |-> merged_data[places[j]]]
              /\ peril_analysis' = PerilAnalysis(filtered_data', premium_by_peril)
    /\ UNCHANGED <<Files, pc, data, portfolio, premium_by_peril, Maxes, merged_data,
                   Session, selected_country, alignment, App, Nav, Widgets>>

CountryChoices == {"Germany", "France", "Atlantis"}

\* 2_Deep_Dive.py 30-34 and 105-132, for the country chosen on the overview
\* page; nothing is drawn for a country without events or without portfolio
RenderAlignment ==
    /\ pc = "returned"
    /\ \E choice \in CountryChoices :
          LET chosen(r) == r["country"] = choice
              df_country == SelectSeq(data, chosen)
              country_portfolio == SelectSeq(portfolio, chosen)
          IN  /\ selected_country' = choice
              /\ alignment' =
                    IF Len(df_country) = 0 \/ Len(country_portfolio) = 0 THEN Unset
                    ELSE Alignment(df_country, premium_by_peril,
                            Val(country_portfolio[1]["annual_premium_eur_million"]))
    /\ UNCHANGED <<Files, pc, data, portfolio, premium_by_peril, Maxes, merged_data,
                   Session, filtered_data, peril_analysis, App, Nav, Widgets>>

NextPages ==
    \/ Next
    \/ RenderPerilAnalysis
    \/ RenderAlignment

(***************************************************************************)
(* app.py holds its own load_data (lines 38-120), run by its own process on *)
(* the same files.  It has no derived-field block, so it indexes one column *)
(* fewer than data_loader.py.                                               *)
(***************************************************************************)
\* app.py date assembly with a missing month or day set to 1
app_DateRow_fill1(row) ==
    LET date == to_datetime_fill1(row["Start Year"], row["Start Month"], row["Start Day"])
    IN  Assign(row, [c \in {"date", "month", "month_name", "year"} |->
            CASE c = "date" -> date
              [] c = "month" -> row["Start Month"]
              [] c = "month_name" -> month_name(date)
              [] c = "year" -> row["Start Year"]])

\* app.py 56-68
app_DateRow(row) ==
    LET date == to_datetime(row["Start Year"], row["Start Month"], row["Start Day"])
    IN  Assign(row, [c \in {"date", "month", "month_name", "year"} |->
            CASE c = "date" -> date
              [] c = "month" -> row["Start Month"]
              [] c = "month_name" -> month_name(date)
              [] c = "year" -> row["Start Year"]])

\* app.py 70-75
app_DurationRow(row) ==
    Assign(row, [c \in {"duration_days"} |->
        DurationDays(to_datetime(row["End Year"], row["End Month"], row["End Day"]),
                     row["date"])])

\* the columns app.py's load_data indexes
app_indexed ==
    {"Start Year", "Start Month", "Start Day", "End Year", "End Month", "End Day",
     "Total Deaths", "Total Affected", DamageAdjusted, "Disaster Type", "Country"}

\* app.py 40-120 on files that have the indexed columns
app_load_data(csv, pcsv, prem) ==
    LET n == Len(csv)
        coerced == [i \in 1..n |-> CoerceRow(csv[i])]
        dated == [i \in 1..n |-> app_DurationRow(app_DateRow(coerced[i]))]
        md == Denominator(ColMax(dated, "Total Deaths"))
        ma == Denominator(ColMax(dated, "Total Affected"))
        mg == Denominator(ColMax(dated, DamageAdjusted))
        scored == [i \in 1..n |->
                     LET row == dated[i]
                         typed == Assign(row, [c \in {"severity", "event_type"} |->
                                    IF c = "severity" THEN SeverityOf(row, md, ma, mg)
                                    ELSE EventTypeOf(row["Disaster Type"])])
                     IN  Assign(typed, [c \in {"economic_impact_million_usd", "event_id"} |->
                            IF c = "event_id" THEN IndexOf(i)
                            ELSE EconomicImpactOf(typed)])]
        keep(row) == isin(row["Country"], pcsv, "country")
        kept == SelectSeq(scored, keep)
        events == [i \in 1..Len(kept) |-> RenameCountry(kept[i])]
    IN  [data |-> events, portfolio |-> pcsv, premium_by_peril |-> prem,
         merged_data |-> merge(events, pcsv)]

\* app.py 123: the first call of its load_data, once the dashboard's own call
\* has ended
AppLoadData ==
    /\ app_pc = "start"
    /\ pc \in {"returned", "KeyError"}
    /\ IF Has(app_indexed)
       THEN /\ app_pc' = "returned"
            /\ app_outputs' = app_load_data(data_csv, portfolio_csv, premium_csv)
       ELSE /\ app_pc' = "KeyError"
            /\ app_outputs' = app_outputs
    /\ UNCHANGED <<Files, pc, data, portfolio, premium_by_peril, Maxes, merged_data,
                   Session, Pages, app_filtered_data, Nav, Widgets>>

NextVariants ==
    \/ Next
    \/ AppLoadData

(***************************************************************************)
(* The presentation filter of the overview pages (1_Overview.py 677-695,    *)
(* 0_Overview.py 626-646) and of app.py (218-240), which also filters by    *)
(* country.                                                                 *)
(***************************************************************************)
covered_perils == {"Flood", "Wildfire", "Hurricane", "Heatwave", "Coldwave", "Storm"}
uncovered_perils == {"Earthquake", "Drought", "Landslide", "Volcanic"}

\* a year test that lets a missing year pass
year_between_or_missing(y, range) ==
    IsNaN(y) \/ (Val(y) >= range[1] /\ Val(y) <= range[2])

\* (year >= range[0]) & (year <= range[1]); both comparisons are False on NaN
year_between(y, range) ==
    ~IsNaN(y) /\ Val(y) >= range[1] /\ Val(y) <= range[2]

\* `if st.session_state.selected_month:` None and 0 are falsy
IsSet(month) == ~IsNaN(month) /\ Val(month) # 0

filter_by_peril(rows, coverage, peril, month) ==
    LET in_coverage(r) ==
            CASE coverage = "Covered Perils" -> r["event_type"] \in covered_perils
              [] coverage = "Uncovered Perils" -> r["event_type"] \in uncovered_perils
              [] OTHER -> TRUE
        is_peril(r) == peril = "All Perils" \/ r["event_type"] = peril
        in_month(r) == ~IsSet(month) \/ r["month"] = month
        keep(r) == in_coverage(r) /\ is_peril(r) /\ in_month(r)
    IN  SelectSeq(rows, keep)

filter_rows(merged, range, coverage, peril, month) ==
    LET in_years(r) == year_between(r["year"], range)
    IN  filter_by_peril(SelectSeq(merged, in_years), coverage, peril, month)

app_filter_rows(merged, range, country, coverage, peril, month) ==
    LET in_years(r) == year_between(r["year"], range)
        in_country(r) == country = "All Europe" \/ r["country"] = country
        keep(r) == in_years(r) /\ in_country(r)
    IN  filter_by_peril(SelectSeq(merged, keep), coverage, peril, month)

Coverages == {"All Perils", "Covered Perils", "Uncovered Perils"}

\* the years of an events table, missing ones dropped
available_years(events) ==
    {Val(events[i]["year"]) : i \in {j \in 1..Len(events) : ~IsNaN(events[j]["year"])}}

min_year(events) ==
    LET ys == available_years(events)
    IN  IF ys = {} THEN 1950 ELSE CHOOSE y \in ys : \A z \in ys : y <= z

max_year(events) ==
    LET ys == available_years(events)
    IN  IF ys = {} THEN 2025 ELSE CHOOSE y \in ys : \A z \in ys : z <= y

\* positions of the year slider: its two ends (the default) and the years
\* of the data between them
YearChoices(events) ==
    LET ends == {min_year(events), max_year(events)} \cup available_years(events)
    IN  {<<lo, hi>> : lo \in ends, hi \in ends} \ {<<lo, hi>> \in ends \X ends : lo > hi}

\* 1_Overview.py 640-695: the widgets are read and the filters applied
ApplyFilters ==
    /\ pc = "returned"
    /\ \E coverage \in Coverages :
          \E range \in YearChoices(data) :
              /\ peril_coverage' = coverage
              /\ year_range' = range
              /\ filtered_data' = filter_rows(merged_data, range, coverage,
                                              selected_peril, selected_month)
    /\ UNCHANGED <<Files, pc, data, portfolio, premium_by_peril, Maxes, merged_data,
                   Session, peril_analysis, selected_country, alignment, App, Nav,
                   selected_peril, selected_month>>

\* app.py 163-240, with the country select box
AppApplyFilters ==
    /\ app_pc = "returned"
    /\ \E coverage \in Coverages :
          \E range \in YearChoices(app_outputs["data"]) :
              \E country \in {"All Europe"} \cup
                    {app_outputs["portfolio"][j]["country"] :
                        j \in 1..Len(app_outputs["portfolio"])} :
                  app_filtered_data' =
                      [year_range |-> range, peril_coverage |-> coverage,
                       selected_country |-> country,
                       rows |-> app_filter_rows(app_outputs["merged_data"], range,
                                    country, coverage, selected_peril, selected_month)]
    /\ UNCHANGED <<Files, pc, data, portfolio, premium_by_peril, Maxes, merged_data,
                   Session, Pages, app_pc, app_outputs, Nav, Widgets>>

\* load_data computing its tables, the first call of a process
FirstCall ==
    \/ ReadCsv
    \/ ToNumeric
    \/ CreateDate
    \/ Duration
    \/ DerivedFields
    \/ Severity
    \/ EventType
    \/ EconomicImpact
    \/ EventId
    \/ CountryFilter
    \/ Merge

NextFilters ==
    \/ FirstCall
    \/ AppLoadData
    \/ ApplyFilters
    \/ AppApplyFilters

(***************************************************************************)
(* Navigation.  0_Overview.py is the main script of the multipage app and   *)
(* the three scripts under pages/ are its pages; all four share one         *)
(* st.session_state.  Each action below is one run of the script of the     *)
(* current page, its load_data() answered as in the first call.             *)
(***************************************************************************)
OverviewPages == {"0_Overview", "1_Overview"}
DeepDivePages == {"1_Deep_Dive", "2_Deep_Dive"}
PageNames == OverviewPages \cup DeepDivePages

\* a guard that only asks for the key
deep_dive_allowed_if_present(selected) == selected # Absent

\* not ('selected_country' not in st.session_state or ... == "All Europe")
deep_dive_allowed(selected) == selected # Absent /\ selected # "All Europe"

\* the popups of the map: one circle per country of the filtered events
markers(events) == {events[i]["country"] : i \in 1..Len(events)}

\* the page is picked in the sidebar or by its URL; the map of the page is
\* built anew and reports no click
OpenPage ==
    /\ pc = "returned"
    /\ \E p \in PageNames : page' = p
    /\ map_click' = ""
    /\ shown' = "nothing"
    /\ UNCHANGED <<Files, pc, data, portfolio, premium_by_peril, Maxes, merged_data,
                   Session, Pages, App, Widgets>>

\* pages/1_Overview.py 615-771 with the slider at its default; the script
\* ends at switch_page, before the charts below the map
RunOverview1 ==
    /\ pc = "returned"
    /\ page = "1_Overview"
    /\ \E coverage \in Coverages :
          LET selected == IF selected_country = Absent THEN "All Europe"
                          ELSE selected_country
              range == <<min_year(data), max_year(data)>>
              events == filter_rows(merged_data, range, coverage,
                                    selected_peril, selected_month)
          IN  \E clicked_country \in {""} \cup markers(events) :
                  /\ peril_coverage' = coverage
                  /\ year_range' = range
                  /\ filtered_data' = events
                  /\ map_click' = clicked_country
                  /\ IF clicked_country # "" /\ selected # clicked_country
                     THEN /\ selected_country' = clicked_country
                          /\ page' = "2_Deep_Dive"
                          /\ shown' = "nothing"
                          /\ UNCHANGED peril_analysis
                     ELSE /\ selected_country' = selected
                          /\ shown' = "overview"
                          /\ peril_analysis' = PerilAnalysis(events, premium_by_peril)
                          /\ UNCHANGED page
    /\ UNCHANGED <<Files, pc, data, portfolio, premium_by_peril, Maxes, merged_data,
                   Session, alignment, App, selected_peril, selected_month>>

\* 0_Overview.py 568-681; the click is handled inside render_q1_map (162-165)
RunOverview0 ==
    /\ pc = "returned"
    /\ page = "0_Overview"
    /\ \E coverage \in Coverages :
          LET range == <<min_year(data), max_year(data)>>
              events == filter_rows(merged_data, range, coverage,
                                    selected_peril, selected_month)
          IN  \E clicked_country \in {""} \cup markers(events) :
                  /\ peril_coverage' = coverage
                  /\ year_range' = range
                  /\ filtered_data' = events
                  /\ map_click' = clicked_country
                  /\ IF clicked_country # ""
                     THEN /\ selected_country' = clicked_country
                          /\ page' = "1_Deep_Dive"
                          /\ shown' = "nothing"
                          /\ UNCHANGED peril_analysis
                     ELSE /\ shown' = "overview"
                          /\ peril_analysis' = PerilAnalysis(events, premium_by_peril)
                          /\ UNCHANGED <<selected_country, page>>
    /\ UNCHANGED <<Files, pc, data, portfolio, premium_by_peril, Maxes, merged_data,
                   Session, alignment, App, selected_peril, selected_month>>

\* pages/1_Overview.py 660-665, the Reset All button
ResetAll ==
    /\ pc = "returned"
    /\ page = "1_Overview"
    /\ shown = "overview"
    /\ selected_country' = "All Europe"
    /\ selected_peril' = "All Perils"
    /\ selected_month' = None
    /\ shown' = "nothing"
    /\ UNCHANGED <<Files, pc, data, portfolio, premium_by_peril, Maxes, merged_data,
                   Session, filtered_data, peril_analysis, alignment, App, page,
                   map_click, year_range, peril_coverage>>

\* render_country_deep_dive of 2_Deep_Dive.py, lines 30-34 and 105-132
country_alignment(selected) ==
    LET chosen(r) == r["country"] = selected
        df_country == SelectSeq(data, chosen)
        country_portfolio == SelectSeq(portfolio, chosen)
    IN  IF Len(df_country) = 0 \/ Len(country_portfolio) = 0 THEN Unset
        ELSE Alignment(df_country, premium_by_peril,
                       Val(country_portfolio[1]["annual_premium_eur_million"]))

\* pages/2_Deep_Dive.py 381-401
RunDeepDive2 ==
    /\ pc = "returned"
    /\ page = "2_Deep_Dive"
    /\ IF deep_dive_allowed(selected_country)
       THEN /\ shown' = "analysis"
            /\ alignment' = country_alignment(selected_country)
       ELSE /\ shown' = "warning"
            /\ UNCHANGED alignment
    /\ UNCHANGED <<Files, pc, data, portfolio, premium_by_peril, Maxes, merged_data,
                   Session, filtered_data, peril_analysis, selected_country, App, page,
                   map_click, Widgets>>

\* pages/1_Deep_Dive.py 278-292
RunDeepDive1 ==
    /\ pc = "returned"
    /\ page = "1_Deep_Dive"
    /\ shown' = IF deep_dive_allowed(selected_country) THEN "analysis" ELSE "warning"
    /\ UNCHANGED <<Files, pc, data, portfolio, premium_by_peril, Maxes, merged_data,
                   Session, Pages, App, page, map_click, Widgets>>

\* the Back button of the analysis: 2_Deep_Dive.py 23-25, 1_Deep_Dive.py 19-21
Back ==
    /\ pc = "returned"
    /\ shown = "analysis"
    /\ selected_country' = "All Europe"
    /\ page' = IF page = "2_Deep_Dive" THEN "1_Overview" ELSE "0_Overview"
    /\ map_click' = ""
    /\ shown' = "nothing"
    /\ UNCHANGED <<Files, pc, data, portfolio, premium_by_peril, Maxes, merged_data,
                   Session, filtered_data, peril_analysis, alignment, App, Widgets>>

\* the button under the warning: 2_Deep_Dive.py 390-391, 1_Deep_Dive.py 287-288
GoToOverview ==
    /\ pc = "returned"
    /\ shown = "warning"
    /\ page' = "1_Overview"
    /\ map_click' = ""
    /\ shown' = "nothing"
    /\ UNCHANGED <<Files, pc, data, portfolio, premium_by_peril, Maxes, merged_data,
                   Session, Pages, App, Widgets>>

NextNavigation ==
    \/ FirstCall
    \/ OpenPage
    \/ RunOverview1
    \/ RunOverview0
    \/ ResetAll
    \/ RunDeepDive2
    \/ RunDeepDive1
    \/ Back
    \/ GoToOverview

(***************************************************************************)
(* Input files.                                                             *)
(***************************************************************************)
Row(deaths, injured, affected, damage, start, end, type, country) ==
    [c \in AllColumns |->
        CASE c = "Total Deaths" -> deaths
          [] c = "No. Injured" -> injured
          [] c = "No. Homeless" -> <<>>
          [] c = "Total Affected" -> affected
          [] c = DamageAdjusted -> damage
          [] c = "Start Year" -> start[1]
          [] c = "Start Month" -> start[2]
          [] c = "Start Day" -> start[3]
          [] c = "End Year" -> end[1]
          [] c = "End Month" -> end[2]
          [] c = "End Day" -> end[3]
          [] c = "Disaster Type" -> type
          [] c = "Country" -> country]

PortfolioRow(country, policies, share) ==
    [country |-> country,
     policy_count |-> Num(policies),
     total_insured_value_eur_billion |-> Num(policies * 2),
     annual_premium_eur_million |-> Num(policies * 3),
     market_share_percent |-> Num(share)]

Germany == PortfolioRow("Germany", 120, 18)
France == PortfolioRow("France", 90, 12)
GermanyAgain == PortfolioRow("Germany", 7, 1)

Jan15 == <<<<"2", "0", "2", "0">>, <<"1">>, <<"1", "5">>>>
Jan20 == <<<<"2", "0", "2", "0">>, <<"1">>, <<"2", "0">>>>

Dec31of2019 == <<<<"2", "0", "1", "9">>, <<"1", "2">>, <<"3", "1">>>>
Mar1 == <<<<"2", "0", "2", "0">>, <<"3">>, <<"1">>>>

PremiumRow(peril, premium) ==
    [event_type |-> peril, annual_premium_eur_million |-> Num(premium)]

PremiumTable == <<PremiumRow("Flood", 300), PremiumRow("Storm", 100)>>

InitTables(Rows, ColSets, Portfolios, Premiums) ==
    /\ columns \in ColSets
    /\ \E n \in 0..MaxRows :
         \E t \in [1..n -> Rows] :
            data_csv = [i \in 1..n |-> [c \in columns |-> t[i][c]]]
    /\ portfolio_csv \in Portfolios
    /\ premium_csv \in Premiums
    /\ pc = "start"
    /\ data = Unset
    /\ portfolio = Unset
    /\ premium_by_peril = Unset
    /\ max_deaths = 0
    /\ max_affected = 0
    /\ max_damage = 0
    /\ merged_data = Unset
    /\ cache = <<>>
    /\ calls = 1
    /\ filtered_data = Unset
    /\ peril_analysis = Unset
    /\ selected_country = Absent
    /\ alignment = Unset
    /\ app_pc = "start"
    /\ app_outputs = Unset
    /\ app_filtered_data = [year_range |-> <<0, 0>>, peril_coverage |-> "",
                            selected_country |-> "", rows |-> <<>>]
    /\ map_click = ""
    /\ shown = "nothing"
    /\ year_range = <<0, 0>>
    /\ peril_coverage = ""

\* the main script is 0_Overview.py; a page that filters sets the two filter
\* keys to these defaults before it reads them
InitFiles(Rows, ColSets, Portfolios, Premiums) ==
    /\ InitTables(Rows, ColSets, Portfolios, Premiums)
    /\ page = "0_Overview"
    /\ selected_peril = "All Perils"
    /\ selected_month = None

InitWith(Rows, ColSets, Portfolios) ==
    InitFiles(Rows, ColSets, Portfolios, {PremiumTable})

\* events of covered and uncovered countries, against several portfolios
CountryRows ==
    {Row(d, <<"1">>, <<"3">>, <<"5", "0", "0">>, Jan15, Jan20, "Storm", k) :
        d \in {<<>>, <<"2">>},
        k \in {"Germany", "France", "Atlantis", NaNText}}

Portfolios == {<<>>, <<Germany>>, <<Germany, France>>, <<Germany, GermanyAgain>>}

Init == InitWith(CountryRows, {AllColumns}, Portfolios)

Spec == Init /\ [][Next]_vars

\* the same files, replaced between calls
SpecSession == Init /\ [][NextSession]_vars

\* the three magnitude columns (deaths, affected, adjusted damage): every
\* mix of missing and positive, every mix of zero and positive, and rows
\* with a negative or a non-maximal value
MagnitudeRow(d, a, g) == Row(d, <<>>, a, g, Jan15, Jan20, "Flood", "Germany")

MagnitudeRows ==
    {MagnitudeRow(d, a, g) :
        d \in {<<>>, <<"2">>}, a \in {<<>>, <<"3">>}, g \in {<<>>, <<"2", "5", "0", "0">>}}
    \cup
    {MagnitudeRow(d, a, g) :
        d \in {<<"0">>, <<"2">>}, a \in {<<"0">>, <<"3">>}, g \in {<<"0">>, <<"2", "5", "0", "0">>}}
    \cup
    {MagnitudeRow(<<"-", "1">>, <<>>, <<"0">>),
     MagnitudeRow(<<"-", "1">>, <<"3">>, <<"2", "5", "0", "0">>),
     MagnitudeRow(<<"1">>, <<"0">>, <<"2", "5", "0", "0">>),
     MagnitudeRow(<<"2">>, <<"3">>, <<"-", "5">>)}

InitSeverity == InitWith(MagnitudeRows, {AllColumns}, {<<Germany, France>>})

SpecSeverity == InitSeverity /\ [][Next]_vars

\* every raw disaster type of the lookup table, and some outside it
TypeRows ==
    {Row(<<"2">>, <<>>, <<"3">>, <<>>, Jan15, Jan20, t, "Germany") :
        t \in DOMAIN disaster_type_mapping \cup {"Foo", "Epidemic", "Hurricane", NaNText}}

InitTypes == InitWith(TypeRows, {AllColumns}, {<<Germany>>})

SpecTypes == InitTypes /\ [][Next]_vars

\* start dates with missing, valid and invalid components (month 13,
\* February 30th), and end dates that do or do not resolve
DateRow2020(start, end) == Row(<<"2">>, <<>>, <<"3">>, <<>>, start, end, "Flood", "Germany")

DateRows ==
    {DateRow2020(<<y, m, d>>, Jan20) :
        y \in {<<>>, <<"2", "0", "2", "0">>},
        m \in {<<>>, <<"2">>, <<"1", "3">>},
        d \in {<<>>, <<"1">>, <<"3", "0">>}}
    \cup
    {DateRow2020(Jan15, <<<<"2", "0", "2", "0">>, <<>>, <<>>>>),
     DateRow2020(Jan20, Jan15),
     DateRow2020(Dec31of2019, Mar1)}

InitDates == InitWith(DateRows, {AllColumns}, {<<Germany>>})

SpecDates == InitDates /\ [][Next]_vars

\* numeric-bearing cells whose text is no number
BadTexts == {<<"a", "b", "c">>, <<"2", "x">>, <<"-">>}

UnparseableRows ==
    {Row(d, <<"1">>, a, g, <<y, <<"1">>, <<"1", "5">>>>, Jan20, "Flood", "Germany") :
        d \in {<<"2">>, <<"2", "x">>},
        a \in {<<"3">>, <<"-">>},
        g \in {<<"2", "5", "0", "0">>, <<"a", "b", "c">>},
        y \in {<<"2", "0", "2", "0">>, <<"2", "x">>}}

InitUnparseable == InitWith(UnparseableRows, {AllColumns}, {<<Germany>>})

SpecUnparseable == InitUnparseable /\ [][Next]_vars

\* magnitudes of covered and of uncovered countries in one table
MixedRows ==
    {Row(d, <<>>, <<"3">>, g, Jan15, Jan20, "Flood", k) :
        d \in {<<>>, <<"1">>, <<"2">>},
        g \in {<<"0">>, <<"2", "5", "0", "0">>},
        k \in {"Germany", "Atlantis"}}

InitMixed == InitWith(MixedRows, {AllColumns}, {<<Germany>>})

SpecMixed == InitMixed /\ [][Next]_vars

\* events of three perils (one of them missing) in two countries, and premium
\* tables with a peril that no event has
PerilEventRows ==
    {Row(<<"2">>, <<>>, <<"3">>, <<"5", "0", "0">>, Jan15, Jan20, t, k) :
        t \in {"Flood", "Storm", NaNText},
        k \in {"Germany", "France"}}

PremiumTables ==
    {<<PremiumRow("Earthquake", 100)>>,
     <<PremiumRow("Flood", 300), PremiumRow("Earthquake", 100)>>}

InitPerils ==
    InitFiles(PerilEventRows, {AllColumns}, {<<Germany>>, <<Germany, France>>},
              PremiumTables)

SpecPerils == InitPerils /\ [][NextPages]_vars

\* both variants on the same files
SpecVariantDates == InitDates /\ [][NextVariants]_vars

SpecVariants == InitMixed /\ [][NextVariants]_vars

\* events of two years or without year, of a covered and an uncovered peril,
\* in January or March; the two filter keys of the session hold any value
FilterRow(y, m, t) ==
    Row(<<"2">>, <<>>, <<"3">>, <<>>, <<y, m, <<"1", "5">>>>, Jan20, t, "Germany")

FilterRows ==
    {FilterRow(<<>>, <<"1">>, "Flood"),
     FilterRow(<<"2", "0", "1", "9">>, <<"3">>, "Flood"),
     FilterRow(<<"2", "0", "2", "0">>, <<"1">>, "Earthquake")}

InitFilters ==
    /\ InitTables(FilterRows, {AllColumns}, {<<Germany>>}, {PremiumTable})
    /\ page = "1_Overview"
    /\ selected_peril \in {"All Perils", "Flood"}
    /\ selected_month \in {None, Num(3)}

SpecFilters == InitFilters /\ [][NextFilters]_vars

\* events of Germany and France, both in the portfolio; the first script run
\* of a session is that of any page
NavigationRows ==
    {Row(<<"2">>, <<>>, <<"3">>, <<>>, <<<<"2", "0", "2", "0">>, <<"1">>, <<"1", "5">>>>,
         Jan20, "Flood", c) : c \in {"Germany", "France"}}

InitNavigation ==
    /\ InitTables(NavigationRows, {AllColumns}, {<<Germany, France>>}, {PremiumTable})
    /\ page \in PageNames
    /\ selected_peril = "All Perils"
    /\ selected_month = None

SpecNavigation == InitNavigation /\ [][NextNavigation]_vars

\* files that lack one column, or none
ColumnSets == {AllColumns} \cup {AllColumns \ {c} : c \in AllColumns}

ColumnRows ==
    {Row(<<"2">>, <<"1">>, <<"3">>, <<"5", "0", "0">>, Jan15, Jan20, "Storm", k) :
        k \in {"Germany", "Atlantis"}}

InitColumns == InitWith(ColumnRows, ColumnSets, {<<Germany, France>>})

SpecColumns == InitColumns /\ [][Next]_vars

SpecVariantColumns == InitColumns /\ [][NextVariants]_vars

(***************************************************************************)
(* Properties of the returned tables.                                       *)
(***************************************************************************)
Returned == pc = "returned"

Rows(t) == {t[k] : k \in 1..Len(t)}

\* the country column of the portfolio file
PortfolioCountries == {portfolio_csv[j]["country"] : j \in 1..Len(portfolio_csv)}

\* positions of the input rows whose country the portfolio file lists
Covered == {i \in 1..Len(data_csv) : data_csv[i]["Country"] \in PortfolioCountries}

\* C1. Country narrowing: every row of the returned events table and of the
\* returned merged table has a country of the portfolio's country column, and
\* no returned row carries the country of an input row outside the portfolio.
CountryNarrowing ==
    Returned =>
        /\ \A r \in Rows(data) \cup Rows(merged_data) :
                r["country"] \in PortfolioCountries
        /\ \A i \in 1..Len(data_csv) :
                i \notin Covered =>
                    \A r \in Rows(data) \cup Rows(merged_data) :
                        r["country"] # data_csv[i]["Country"]

\* an uncovered input row was dropped and a covered one was returned
CountryNarrowingWitness ==
    /\ Returned
    /\ Covered # {}
    /\ Covered # 1..Len(data_csv)
    /\ Len(data) = Cardinality(Covered)
    /\ Len(merged_data) >= 1

\* C2 as stated. Event-id density: the event_id values of the returned events
\* table are exactly 0..n-1, without gaps or duplicates, n being the number of
\* rows that survive the country filter.
EventIdDense ==
    Returned =>
        /\ {r["event_id"] : r \in Rows(data)} = 0..(Len(data) - 1)
        /\ \A k, l \in 1..Len(data) : k # l => data[k]["event_id"] # data[l]["event_id"]

\* C2 amended. The id is assigned before the country filter: the returned
\* events table has one row per covered input row, without duplicate ids, and
\* its event_id values are the zero-based positions of the covered rows in the
\* unfiltered input (so they lie in 0..N-1 for N input rows, with gaps where
\* rows were dropped).
EventIdIsInputPosition ==
    Returned =>
        /\ Len(data) = Cardinality(Covered)
        /\ {r["event_id"] : r \in Rows(data)} = {i - 1 : i \in Covered}
        /\ \A k, l \in 1..Len(data) : k # l => data[k]["event_id"] # data[l]["event_id"]

\* a dropped row precedes a kept one, whose id is then outside 0..n-1
EventIdGapWitness ==
    /\ Returned
    /\ Len(data) >= 1
    /\ \E r \in Rows(data) : r["event_id"] >= Len(data)

Magnitudes == {"Total Deaths", "Total Affected", DamageAdjusted}

InUnitRange(p, upper) ==
    /\ ~IsNaN(p)
    /\ p[2] > 0
    /\ 0 <= p[1]
    /\ p[1] <= upper * p[2]

\* C3. Severity bounds: in every returned row severity is a non-missing value
\* with 0 <= severity <= 10, and a row whose deaths, affected and adjusted
\* damage are all missing has severity exactly 0.
SeverityBounds ==
    Returned =>
        \A r \in Rows(data) \cup Rows(merged_data) :
            /\ InUnitRange(r["severity"], 10)
            /\ (\A c \in Magnitudes : IsNaN(r[c])) => r["severity"] = <<0, 1>>

\* a row with all three magnitudes missing scored 0 next to a row that scored
\* 10, and a negative total was raised to 0
SeverityBoundsWitness ==
    /\ Returned
    /\ \E r \in Rows(merged_data) :
            (\A c \in Magnitudes : IsNaN(r[c])) /\ r["severity"] = <<0, 1>>
    /\ \/ \E r \in Rows(merged_data) : r["severity"] = <<10, 1>>
       \/ \E r \in Rows(merged_data) :
            ~IsNaN(r["Total Deaths"]) /\ Val(r["Total Deaths"]) < 0

\* the value of a parsed input cell, a missing one counted as 0
InputValue(i, c) ==
    LET v == to_numeric(data_csv[i][c])
    IN  IF IsNaN(v) THEN 0 ELSE Val(v)

\* the parsed, non-missing values of an input column
InputValues(c) ==
    {Val(to_numeric(data_csv[i][c])) :
        i \in {j \in 1..Len(data_csv) : ~IsNaN(to_numeric(data_csv[j][c]))}}

\* the denominator the specification prescribes for a column: its maximum,
\* or 1 when the maximum is 0, negative or absent
MaxOrOne(c) ==
    LET vals == InputValues(c)
    IN  IF \E v \in vals : v > 0
        THEN CHOOSE v \in vals : \A w \in vals : w <= v
        ELSE 1

\* numerator of the weighted sum of input row i over the common denominator
\* D * A * G of the three column denominators
WeightedSum(i, D, A, G) ==
    3 * InputValue(i, "Total Deaths") * A * G
    + 3 * InputValue(i, "Total Affected") * D * G
    + 4 * InputValue(i, DamageAdjusted) * D * A

\* p is the clamp to [0, 10] of n / d, for d > 0
IsClamped(p, n, d) ==
    /\ ~IsNaN(p)
    /\ IF n < 0 THEN p[1] = 0
       ELSE IF n > 10 * d THEN p[1] = 10 * p[2]
       ELSE p[1] * d = n * p[2]

\* input row i holds the positive maximum of column c and 0 in the other two
HoldsOnlyMax(i, c) ==
    /\ InputValue(i, c) > 0
    /\ InputValue(i, c) = MaxOrOne(c)
    /\ \A o \in Magnitudes \ {c} : InputValue(i, o) = 0

\* C4. Severity formula: severity is the clamp to [0, 10] of
\* 3*deaths/maxDeaths + 3*affected/maxAffected + 4*damage/maxDamage, a missing
\* numerator counted as 0; a row holding the (positive) column maximum of
\* deaths and 0 elsewhere scores 3, one holding the maximum of adjusted damage
\* and 0 elsewhere scores 4.
SeverityFormula ==
    Returned =>
        LET D == MaxOrOne("Total Deaths")
            A == MaxOrOne("Total Affected")
            G == MaxOrOne(DamageAdjusted)
        IN  \A r \in Rows(data) \cup Rows(merged_data) :
                LET i == r["event_id"] + 1
                IN  /\ IsClamped(r["severity"], WeightedSum(i, D, A, G), D * A * G)
                    /\ HoldsOnlyMax(i, "Total Deaths") => r["severity"] = <<3, 1>>
                    /\ HoldsOnlyMax(i, DamageAdjusted) => r["severity"] = <<4, 1>>

\* the two-row table of the weighting test: one row scored 3, the other 4
SeverityFormulaWitness ==
    /\ Returned
    /\ \E r \in Rows(data) :
            HoldsOnlyMax(r["event_id"] + 1, "Total Deaths") /\ r["severity"] = <<3, 1>>
    /\ \E r \in Rows(data) :
            HoldsOnlyMax(r["event_id"] + 1, DamageAdjusted) /\ r["severity"] = <<4, 1>>

AfterSeverity ==
    pc \in {"event_type", "economic", "event_id", "filter", "merge", "returned"}

\* C5. Each severity denominator is 1 whenever its column maximum is 0,
\* negative or absent, and the column maximum otherwise; it is never 0, and a
\* column that is all zero or all missing leaves every score free of NaN.
DenominatorDefaults ==
    AfterSeverity =>
        /\ max_deaths = MaxOrOne("Total Deaths")
        /\ max_affected = MaxOrOne("Total Affected")
        /\ max_damage = MaxOrOne(DamageAdjusted)
        /\ max_deaths > 0 /\ max_affected > 0 /\ max_damage > 0
        /\ \A r \in Rows(data) : ~IsNaN(r["severity"])

\* a table whose deaths are negative, whose affected are all missing and
\* whose damage is all zero
DenominatorDefaultsWitness ==
    /\ AfterSeverity
    /\ Len(data_csv) >= 1
    /\ InputValues("Total Deaths") # {} /\ \A v \in InputValues("Total Deaths") : v < 0
    /\ InputValues("Total Affected") = {}
    /\ InputValues(DamageAdjusted) = {0}
    /\ max_deaths = 1 /\ max_affected = 1 /\ max_damage = 1

\* C6. Economic impact scaling: economic_impact_million_usd is the adjusted
\* total damage divided by 1000, 0 when the damage is missing, and never
\* missing in a returned row.
EconomicImpactScaling ==
    Returned =>
        \A r \in Rows(data) \cup Rows(merged_data) :
            LET e == r["economic_impact_million_usd"]
            IN  /\ ~IsNaN(e)
                /\ e[2] > 0
                /\ e[1] * 1000 = InputValue(r["event_id"] + 1, DamageAdjusted) * e[2]
                /\ IsNaN(r[DamageAdjusted]) => e = <<0, 1>>

\* damage 2500 gave 2.5 and a missing damage gave 0
EconomicImpactWitness ==
    /\ Returned
    /\ \E r \in Rows(data) :
            r[DamageAdjusted] = Num(2500) /\ r["economic_impact_million_usd"] = <<5, 2>>
    /\ \E r \in Rows(data) :
            IsNaN(r[DamageAdjusted]) /\ r["economic_impact_million_usd"] = <<0, 1>>

\* the canonical event type the specification gives for a raw disaster type
Canonical(raw) ==
    CASE raw = "Storm" -> "Hurricane"
      [] raw = "Extreme temperature" -> "Heatwave"
      [] raw = "Mass movement (wet)" -> "Landslide"
      [] raw = "Mass movement (dry)" -> "Landslide"
      [] raw = "Volcanic activity" -> "Volcanic"
      [] OTHER -> raw

\* C7. Event-type canonicalization: event_type is the fixed lookup of the raw
\* disaster type, and a raw value that is no key of the table passes through
\* unchanged.
EventTypeCanonical ==
    Returned =>
        \A r \in Rows(data) \cup Rows(merged_data) :
            /\ r["event_type"] = Canonical(r["Disaster Type"])
            /\ r["Disaster Type"] = data_csv[r["event_id"] + 1]["Disaster Type"]

\* a renamed type and an unknown type in one table
EventTypeWitness ==
    /\ Returned
    /\ \E r \in Rows(data) : r["Disaster Type"] = "Storm" /\ r["event_type"] = "Hurricane"
    /\ \E r \in Rows(data) : r["Disaster Type"] = "Foo" /\ r["event_type"] = "Foo"

\* C8 as stated. No syntactically valid events table, whichever optional
\* columns it lacks, makes the operation raise.
NeverRaises == pc # "KeyError"

\* C9 as stated. A record with a start year but no start month or no start day
\* gets a start date, each missing component set to 1.
PartialDateDefaultsToOne ==
    Returned =>
        \A r \in Rows(data) :
            (~IsNaN(r["Start Year"]) /\ (IsNaN(r["Start Month"]) \/ IsNaN(r["Start Day"])))
                => /\ ~IsNaN(r["date"])
                   /\ r["date"] = <<Val(r["Start Year"]),
                                    Val(IF IsNaN(r["Start Month"]) THEN Num(1) ELSE r["Start Month"]),
                                    Val(IF IsNaN(r["Start Day"]) THEN Num(1) ELSE r["Start Day"])>>

\* C9 amended. A record whose start month or start day is missing gets a
\* missing start date, also when its start year is present: no component is
\* defaulted to 1.
PartialDateIsMissing ==
    Returned =>
        \A r \in Rows(data) \cup Rows(merged_data) :
            (IsNaN(r["Start Month"]) \/ IsNaN(r["Start Day"]))
                => IsNaN(r["date"]) /\ r["month_name"] = NaNText

\* a returned record with a start year, no month and no day, and no date,
\* next to a record with a complete date
PartialDateWitness ==
    /\ Returned
    /\ \E r \in Rows(data) :
            /\ r["Start Year"] = Num(2020)
            /\ IsNaN(r["Start Month"]) /\ IsNaN(r["Start Day"])
            /\ IsNaN(r["date"])
    /\ \E r \in Rows(data) : r["date"] = <<2020, 2, 1>>

EventFields ==
    {"event_id", "severity", "event_type", "economic_impact_million_usd", "date"}

PortfolioFields ==
    {"policy_count", "total_insured_value_eur_billion",
     "annual_premium_eur_million", "market_share_percent"}

\* C10. Join completeness: every row of merged carries the event-level fields
\* and the portfolio-level fields of its country, and neither severity nor
\* market_share_percent is missing in it.
JoinCompleteness ==
    Returned =>
        \A r \in Rows(merged_data) :
            /\ EventFields \cup PortfolioFields \cup {"country"} \subseteq DOMAIN r
            /\ ~IsNaN(r["severity"])
            /\ ~IsNaN(r["market_share_percent"])
            /\ \E e \in Rows(data) : \A c \in DOMAIN e : r[c] = e[c]
            /\ \E q \in Rows(portfolio_csv) : \A c \in DOMAIN q : r[c] = q[c]

\* a merged table with rows, beside a portfolio country without any event
JoinCompletenessWitness ==
    /\ Returned
    /\ Len(merged_data) >= 1
    /\ \E q \in Rows(portfolio_csv) : \A r \in Rows(data) : r["country"] # q["country"]

\* the country column of the portfolio file holds no country twice
UniqueCountries ==
    \A j, k \in 1..Len(portfolio_csv) :
        j # k => portfolio_csv[j]["country"] # portfolio_csv[k]["country"]

CountOf(t, id) == Cardinality({k \in 1..Len(t) : t[k]["event_id"] = id})

\* C11. The join is total after the country filter: when the portfolio
\* countries are unique, merged has exactly one row for each row of the
\* returned events table (the same multiset of event_id values).
JoinTotal ==
    (Returned /\ UniqueCountries) =>
        /\ Len(merged_data) = Len(data)
        /\ \A id \in 0..(Len(data_csv) - 1) : CountOf(merged_data, id) = CountOf(data, id)
        /\ \A id \in 0..(Len(data_csv) - 1) : CountOf(merged_data, id) <= 1

\* two events of different countries joined against a two-country portfolio
JoinTotalWitness ==
    /\ Returned
    /\ UniqueCountries
    /\ Len(portfolio_csv) = 2
    /\ Len(data) = 2
    /\ Len(merged_data) = 2
    /\ data[1]["country"] # data[2]["country"]

NumericPresent == numeric_cols \cap columns

\* C12. Unparseable numeric values never raise: a cell of a numeric-bearing
\* column whose text is no number becomes missing, and is then counted as 0
\* in severity and in the economic impact.
UnparseableBecomesMissing ==
    /\ pc # "KeyError"
    /\ Returned =>
        LET D == MaxOrOne("Total Deaths")
            A == MaxOrOne("Total Affected")
            G == MaxOrOne(DamageAdjusted)
        IN  \A r \in Rows(data) \cup Rows(merged_data) :
                LET i == r["event_id"] + 1
                    zero(c) == IF data_csv[i][c] \in BadTexts THEN 0 ELSE InputValue(i, c)
                IN  /\ \A c \in NumericPresent :
                            data_csv[i][c] \in BadTexts => IsNaN(r[c])
                    /\ data_csv[i][DamageAdjusted] \in BadTexts =>
                            r["economic_impact_million_usd"] = <<0, 1>>
                    /\ IsClamped(r["severity"],
                                 3 * zero("Total Deaths") * A * G
                                 + 3 * zero("Total Affected") * D * G
                                 + 4 * zero(DamageAdjusted) * D * A,
                                 D * A * G)
                    /\ (\A c \in Magnitudes : data_csv[i][c] \in BadTexts) =>
                            r["severity"] = <<0, 1>>

\* a returned row whose deaths, affected and damage were all unparseable,
\* next to a row whose values all parsed
UnparseableWitness ==
    /\ Returned
    /\ \E r \in Rows(data) :
            /\ \A c \in Magnitudes : data_csv[r["event_id"] + 1][c] \in BadTexts
            /\ \A c \in Magnitudes : IsNaN(r[c])
            /\ r["severity"] = <<0, 1>>
    /\ \E r \in Rows(data) : r["severity"] = <<10, 1>>

\* day number of a calendar date, by the closed formula for the Gregorian
\* calendar (March-based years)
DayNumber(y, m, d) ==
    LET a == (14 - m) \div 12
        yy == y + 4800 - a
        mm == m + 12 * a - 3
    IN  d + ((153 * mm + 2) \div 5) + 365 * yy + (yy \div 4) - (yy \div 100)
        + (yy \div 400) - 32045

\* the year, month and day cells are present and name a calendar date
Resolves(y, m, d) ==
    /\ ~IsNaN(y) /\ ~IsNaN(m) /\ ~IsNaN(d)
    /\ IsCalendarDate(Val(y), Val(m), Val(d))

\* C13. duration_days is the end date minus the start date in days whenever
\* both dates resolve (negative when the end precedes the start), and is
\* missing, not zero, whenever either date does not resolve.
DurationIsDifference ==
    Returned =>
        \A r \in Rows(data) \cup Rows(merged_data) :
            LET starts == Resolves(r["Start Year"], r["Start Month"], r["Start Day"])
                ends == Resolves(r["End Year"], r["End Month"], r["End Day"])
            IN  IF starts /\ ends
                THEN /\ ~IsNaN(r["duration_days"])
                     /\ Val(r["duration_days"]) =
                            DayNumber(Val(r["End Year"]), Val(r["End Month"]), Val(r["End Day"]))
                            - DayNumber(Val(r["Start Year"]), Val(r["Start Month"]), Val(r["Start Day"]))
                ELSE IsNaN(r["duration_days"])

\* a negative duration, a duration across a leap-year February, and two
\* missing durations: one for an unresolved end, one for an unresolved start
DurationWitness ==
    /\ Returned
    /\ \/ \E r \in Rows(data) : r["duration_days"] = Num(-5)
       \/ \E r \in Rows(data) : r["duration_days"] = Num(61)
    /\ \/ \E r \in Rows(data) : ~IsNaN(r["date"]) /\ IsNaN(r["duration_days"])
       \/ \E r \in Rows(data) :
            /\ IsNaN(r["date"])
            /\ Resolves(r["End Year"], r["End Month"], r["End Day"])
            /\ IsNaN(r["duration_days"])

\* C14. A record whose start year is missing has a missing start date,
\* whatever its month and day.
MissingYearIsMissingDate ==
    Returned =>
        \A r \in Rows(data) \cup Rows(merged_data) :
            IsNaN(r["Start Year"]) =>
                IsNaN(r["date"]) /\ IsNaN(r["year"]) /\ r["month_name"] = NaNText

\* a returned record without a start year but with month 2 and day 1
MissingYearWitness ==
    /\ Returned
    /\ \E r \in Rows(data) :
            /\ IsNaN(r["Start Year"])
            /\ r["Start Month"] = Num(2) /\ r["Start Day"] = Num(1)
            /\ IsNaN(r["date"])

\* C20. The three severity denominators are maxima over the entire input
\* table, rows of countries that the filter later drops included: the
\* severity of a retained row is computed with them, whether or not a
\* retained row attains them.
DenominatorsOverWholeInput ==
    LET D == MaxOrOne("Total Deaths")
        A == MaxOrOne("Total Affected")
        G == MaxOrOne(DamageAdjusted)
    IN  /\ AfterSeverity => (max_deaths = D /\ max_affected = A /\ max_damage = G)
        /\ Returned =>
              \A r \in Rows(data) :
                  /\ r["event_id"] + 1 \in Covered
                  /\ IsClamped(r["severity"],
                               WeightedSum(r["event_id"] + 1, D, A, G), D * A * G)

\* the only row holding the maximum of deaths was dropped by the filter, and
\* the retained row was still scored against it
WholeInputWitness ==
    /\ Returned
    /\ Len(data) = 1
    /\ Len(data_csv) = 2
    /\ max_deaths = 2
    /\ data[1]["Total Deaths"] = Num(1)
    /\ data[1]["Total Affected"] = Num(3)
    /\ data[1][DamageAdjusted] = Num(0)
    /\ data[1]["severity"] = <<9, 2>>

\* the four names of the calling page hold the four members of value
IsBoundTo(value) ==
    /\ data = value["data"]
    /\ portfolio = value["portfolio"]
    /\ premium_by_peril = value["premium_by_peril"]
    /\ merged_data = value["merged_data"]

NewInputsNewOutputs ==
    Returned => IsBoundTo(load_data(data_csv, portfolio_csv, premium_csv))

\* C17. The store is keyed by the function alone: once a call has filled it,
\* the entry stays for the life of the process, and every later call returns
\* that entry without executing the body, whatever the files hold by then.
StoreOutlivesFiles ==
    [][(pc = "start" /\ pc' # "start" /\ DOMAIN cache # {}) =>
          /\ pc' = "returned"
          /\ cache' = cache
          /\ \E k \in DOMAIN cache :
                /\ data' = cache[k]["data"]
                /\ portfolio' = cache[k]["portfolio"]
                /\ premium_by_peril' = cache[k]["premium_by_peril"]
                /\ merged_data' = cache[k]["merged_data"]]_vars

\* the events file lost a row before the second call, which still returned
\* the two events of the old content
StaleWitness ==
    /\ Returned
    /\ calls = 2
    /\ Len(data_csv) = 1
    /\ Len(data) = 2
    /\ ~IsBoundTo(load_data(data_csv, portfolio_csv, premium_csv))

PremiumPerils == event_types(premium_by_peril)

\* the events of the country chosen for the deep dive
CountryEvents ==
    LET chosen(r) == r["country"] = selected_country
    IN  SelectSeq(data, chosen)

DeepDiveDrawn ==
    /\ selected_country # Absent
    /\ selected_country # "All Europe"
    /\ Len(CountryEvents) > 0

OverviewDrawn == Len(filtered_data) > 0

\* the premium the table gives a peril
PremiumOf(k) ==
    LET m == group(premium_by_peril, k)
    IN  m[1]["annual_premium_eur_million"]

\* C19 as stated: in both peril joins every peril of the events and every
\* peril of the premium table has a row; a peril without premium row has
\* premium 0 and a peril without event has event count 0.
ZeroFillBothWays ==
    /\ OverviewDrawn =>
          \A k \in event_types(filtered_data) \cup PremiumPerils :
              \E r \in Rows(peril_analysis) :
                  /\ r["event_type"] = k
                  /\ k \notin PremiumPerils => r["annual_premium_eur_million"] = Num(0)
                  /\ k \notin event_types(filtered_data) => r["event_id"] = Num(0)
    /\ DeepDiveDrawn =>
          \A k \in event_types(CountryEvents) \cup PremiumPerils :
              \E r \in Rows(alignment) :
                  /\ r["event_type"] = k
                  /\ k \notin PremiumPerils => r["premium_million_eur"] = Quot(0, 1)
                  /\ k \notin event_types(CountryEvents) => r["event_count"] = Num(0)

\* C19. The deep-dive alignment join keeps the perils of both sides: a peril
\* without premium row has premium 0, a peril of the premium table without
\* event has event count 0.  The overview risk-matrix join keeps the perils
\* of the filtered events only: a peril without premium row has premium 0,
\* and a peril that only the premium table has gets no row at all.
PerilJoins ==
    /\ OverviewDrawn =>
          /\ {r["event_type"] : r \in Rows(peril_analysis)} = event_types(filtered_data)
          /\ \A r \in Rows(peril_analysis) :
                /\ r["event_id"] = Num(Len(group(filtered_data, r["event_type"])))
                /\ r["annual_premium_eur_million"] =
                      IF r["event_type"] \in PremiumPerils
                      THEN PremiumOf(r["event_type"]) ELSE Num(0)
    /\ DeepDiveDrawn =>
          /\ {r["event_type"] : r \in Rows(alignment)} =
                event_types(CountryEvents) \cup PremiumPerils
          /\ \A r \in Rows(alignment) :
                /\ r["event_count"] = Num(Len(group(CountryEvents, r["event_type"])))
                /\ r["event_type"] \notin PremiumPerils =>
                      r["premium_million_eur"] = Quot(0, 1)

\* both frames drawn from Hurricane events and a premium table that lists
\* Earthquake only: Hurricane has premium 0 in both, Earthquake has event
\* count 0 in the alignment and no row in the risk matrix
PerilJoinsWitness ==
    /\ OverviewDrawn
    /\ DeepDiveDrawn
    /\ PremiumPerils = {"Earthquake"}
    /\ event_types(filtered_data) = {"Hurricane"}
    /\ Len(peril_analysis) = 1
    /\ peril_analysis[1]["event_type"] = "Hurricane"
    /\ peril_analysis[1]["annual_premium_eur_million"] = Num(0)
    /\ Len(alignment) = 2
    /\ alignment[1]["event_type"] = "Earthquake"
    /\ alignment[1]["event_count"] = Num(0)
    /\ alignment[2]["event_type"] = "Hurricane"
    /\ alignment[2]["premium_million_eur"] = Quot(0, 1)

\* C18. No step of the pipeline changes a file, and whenever a call returns,
\* the portfolio and premium-by-peril tables it returns are the tables of the
\* files, row for row and column for column.
LoadedTablesReturnedAsLoaded ==
    [][/\ Files' = Files
       /\ pc' = "returned" =>
             /\ portfolio' = portfolio_csv
             /\ premium_by_peril' = premium_csv]_vars

\* a return where one portfolio country has no event and so no merged row,
\* while both portfolio rows and both premium rows came back
LoadedTablesWitness ==
    /\ Returned
    /\ Len(merged_data) = 1
    /\ Len(portfolio) = 2
    /\ Len(premium_by_peril) = 2
    /\ \E j \in 1..Len(portfolio) :
          \A i \in 1..Len(merged_data) :
              merged_data[i]["country"] # portfolio[j]["country"]
    /\ DOMAIN portfolio[1] = DOMAIN Germany
    /\ DOMAIN premium_by_peril[1] = DOMAIN PremiumRow("Flood", 300)

BothReturned == Returned /\ app_pc = "returned"

\* a start year without a start month or without a start day
IsPartialStart(r) ==
    ~IsNaN(r["Start Year"]) /\ (IsNaN(r["Start Month"]) \/ IsNaN(r["Start Day"]))

\* C21 as stated: for a row with a start year and no start month or day, one
\* variant yields the date with the missing component set to 1 and the other
\* yields a missing date.
VariantsDisagreeOnPartialDate ==
    BothReturned =>
        \A i \in 1..Len(data) :
            IsPartialStart(data[i]) =>
                LET filled == to_datetime_fill1(data[i]["Start Year"],
                                  data[i]["Start Month"], data[i]["Start Day"])
                    loader == data[i]["date"]
                    app == app_outputs["data"][i]["date"]
                IN  /\ ~IsNaN(filled)
                    /\ \/ IsNaN(loader) /\ app = filled
                       \/ IsNaN(app) /\ loader = filled

\* C21. The two variants assemble dates alike: every row has the same date,
\* month, month name, year and duration in both, and a row with a start year
\* and no start month or day has a missing date in both.
VariantsAgreeOnDates ==
    BothReturned =>
        /\ Len(app_outputs["data"]) = Len(data)
        /\ \A i \in 1..Len(data) :
              /\ \A c \in {"date", "month", "month_name", "year", "duration_days"} :
                    app_outputs["data"][i][c] = data[i][c]
              /\ IsPartialStart(data[i]) =>
                    IsNaN(data[i]["date"]) /\ IsNaN(app_outputs["data"][i]["date"])

\* both variants returned a row with the year 2020 and no month, without a
\* date in either, next to a row dated 2020-02-01 in both
VariantsDateWitness ==
    /\ BothReturned
    /\ \E i \in 1..Len(data) :
          /\ data[i]["Start Year"] = Num(2020)
          /\ IsNaN(data[i]["Start Month"])
          /\ IsNaN(data[i]["date"])
          /\ IsNaN(app_outputs["data"][i]["date"])
    /\ \E i \in 1..Len(data) :
          /\ data[i]["date"] = <<2020, 2, 1>>
          /\ app_outputs["data"][i]["date"] = <<2020, 2, 1>>

\* the columns only data_loader.py derives (lines 48-57)
DerivedOnly == {"total_casualties", "response_time_hours", "infrastructure_damage_score"}

\* table b is table a with the derived columns added and nothing else changed
AddsDerivedOnly(a, b) ==
    /\ Len(a) = Len(b)
    /\ \A i \in 1..Len(a) :
          /\ DOMAIN b[i] = DOMAIN a[i] \cup DerivedOnly
          /\ \A c \in DOMAIN a[i] : b[i][c] = a[i][c]

\* C22. On every input both variants return, and return the same rows in the
\* same order with equal values in every column both produce, in events and
\* in merged; data_loader.py only adds its three derived columns.
VariantsSameOutputs ==
    (pc \in {"returned", "KeyError"} /\ app_pc \in {"returned", "KeyError"}) =>
        /\ pc = app_pc
        /\ BothReturned =>
              /\ AddsDerivedOnly(app_outputs["data"], data)
              /\ AddsDerivedOnly(app_outputs["merged_data"], merged_data)
              /\ app_outputs["portfolio"] = portfolio
              /\ app_outputs["premium_by_peril"] = premium_by_peril

\* no parsed deaths, affected or adjusted-damage value of the input is negative
NoNegativeMagnitude == \A c \in Magnitudes : \A v \in InputValues(c) : v >= 0

\* input row i holds the positive maximum of each of the three columns
HoldsEveryMax(i) ==
    \A c \in Magnitudes : InputValue(i, c) > 0 /\ InputValue(i, c) = MaxOrOne(c)

\* C23. The weighted sum never exceeds 10, and is negative only for a row
\* with a negative magnitude, which then scores 0.  When no magnitude of the
\* input is negative the sum lies in [0, 10], severity is the sum itself, and
\* severity is 10 exactly for the rows that hold the positive maximum of all
\* three columns.
ClampOnlyForNegatives ==
    Returned =>
        LET D == MaxOrOne("Total Deaths")
            A == MaxOrOne("Total Affected")
            G == MaxOrOne(DamageAdjusted)
        IN  \A r \in Rows(data) :
                LET i == r["event_id"] + 1
                    n == WeightedSum(i, D, A, G)
                IN  /\ n <= 10 * D * A * G
                    /\ n < 0 => /\ \E c \in Magnitudes : InputValue(i, c) < 0
                                /\ r["severity"] = Quot(0, 1)
                    /\ NoNegativeMagnitude =>
                          /\ n >= 0
                          /\ r["severity"] = Quot(n, D * A * G)
                          /\ r["severity"] = Quot(10, 1) <=> HoldsEveryMax(i)

\* an input without negative magnitude: one row holds all three maxima and
\* scores 10, the other scores 11/2, the unclamped sum 3 * 1/2 + 4
ClampInertWitness ==
    /\ Returned
    /\ NoNegativeMagnitude
    /\ Len(data) = 2
    /\ \E r \in Rows(data) :
          HoldsEveryMax(r["event_id"] + 1) /\ r["severity"] = Quot(10, 1)
    /\ \E r \in Rows(data) :
          /\ r["Total Deaths"] = Num(1)
          /\ r["Total Affected"] = Num(0)
          /\ r[DamageAdjusted] = Num(2500)
          /\ r["severity"] = <<11, 2>>

\* the raw names the table renames
RenamedKeys ==
    {k \in DOMAIN disaster_type_mapping : disaster_type_mapping[k] # k}

\* C24. The lookup is idempotent on what it produced: applied to a returned
\* event_type it gives that event_type again, and no returned event_type is
\* one of the five raw names the table renames.
EventTypeIdempotent ==
    /\ RenamedKeys = {"Storm", "Extreme temperature", "Mass movement (wet)",
                      "Mass movement (dry)", "Volcanic activity"}
    /\ Returned =>
          \A r \in Rows(data) \cup Rows(merged_data) :
              /\ EventTypeOf(r["event_type"]) = r["event_type"]
              /\ r["event_type"] \notin RenamedKeys

\* a renamed raw name and the name it is renamed to, both returned as the
\* latter
EventTypeIdempotentWitness ==
    /\ Returned
    /\ \E r \in Rows(data) :
          r["Disaster Type"] = "Mass movement (wet)" /\ r["event_type"] = "Landslide"
    /\ \E r \in Rows(data) :
          r["Disaster Type"] = "Landslide" /\ r["event_type"] = "Landslide"

\* C25. In the returned events table event_id increases strictly from row
\* to row (so the ids are pairwise distinct), and the row with event_id n is
\* the input row at zero-based position n; in merged the ids are pairwise
\* distinct when the portfolio countries are unique.
EventIdIncreasing ==
    Returned =>
        /\ \A k \in 1..(Len(data) - 1) : data[k]["event_id"] < data[k + 1]["event_id"]
        /\ \A k \in 1..Len(data) :
              LET i == data[k]["event_id"] + 1
              IN  /\ i \in 1..Len(data_csv)
                  /\ data[k]["country"] = data_csv[i]["Country"]
                  /\ data[k]["Total Deaths"] = to_numeric(data_csv[i]["Total Deaths"])
        /\ UniqueCountries =>
              \A k, l \in 1..Len(merged_data) :
                  k # l => merged_data[k]["event_id"] # merged_data[l]["event_id"]

\* two retained events with ids 0 and 1 that differ in deaths, and a
\* portfolio that lists their country twice, so that merged repeats each id
EventIdIncreasingWitness ==
    /\ Returned
    /\ ~UniqueCountries
    /\ Len(data) = 2
    /\ data[1]["event_id"] = 0
    /\ data[2]["event_id"] = 1
    /\ IsNaN(data[1]["Total Deaths"])
    /\ data[2]["Total Deaths"] = Num(2)
    /\ Len(merged_data) = 4
    /\ merged_data[1]["event_id"] = merged_data[2]["event_id"]

\* C29. infrastructure_damage_score lies in [0, 10] in every returned row and
\* is 10 times the row's adjusted damage (missing as 0) over the column
\* maximum, the maximum replaced by 1 when it is not positive.
DamageScoreInRange ==
    Returned =>
        \A r \in Rows(data) \cup Rows(merged_data) :
            /\ r["infrastructure_damage_score"] =
                  Quot(10 * InputValue(r["event_id"] + 1, DamageAdjusted),
                       MaxOrOne(DamageAdjusted))
            /\ InUnitRange(r["infrastructure_damage_score"], 10)

RECURSIVE IsSubTable(_, _)
\* the rows of f are rows of m, in the order of m
IsSubTable(f, m) ==
    IF Len(f) = 0 THEN TRUE
    ELSE IF Len(m) = 0 THEN FALSE
    ELSE IF Head(f) = Head(m) THEN IsSubTable(Tail(f), Tail(m))
    ELSE IsSubTable(f, Tail(m))

PassesFilters(r, range, coverage) ==
    /\ ~IsNaN(r["year"])
    /\ range[1] <= Val(r["year"])
    /\ Val(r["year"]) <= range[2]
    /\ coverage = "Covered Perils" => r["event_type"] \in covered_perils
    /\ coverage = "Uncovered Perils" => r["event_type"] \in uncovered_perils
    /\ selected_peril # "All Perils" => r["event_type"] = selected_peril
    /\ (selected_month # None /\ selected_month # Num(0)) => r["month"] = selected_month

FiltersApplied == peril_coverage # ""
AppFiltersApplied == app_filtered_data["peril_coverage"] # ""

\* C28. Presentation filter: once the filters of an overview page or of
\* app.py are applied, the filtered table is a sub-table of merged (same rows,
\* same order); each of its rows has a year that is not missing and lies in
\* the chosen range, an event_type of the chosen coverage list unless the
\* coverage is "All Perils", the selected peril unless it is "All Perils", and
\* the selected month when one is set (in app.py also the selected country
\* unless it is "All Europe"); with the full default range the table still
\* holds no row whose year is missing.
FilteredIsSubTable ==
    /\ FiltersApplied =>
          /\ IsSubTable(filtered_data, merged_data)
          /\ \A r \in Rows(filtered_data) : PassesFilters(r, year_range, peril_coverage)
          /\ year_range = <<min_year(data), max_year(data)>> =>
                \A r \in Rows(filtered_data) : ~IsNaN(r["year"])
    /\ AppFiltersApplied =>
          LET f == app_filtered_data
          IN  /\ IsSubTable(f["rows"], app_outputs["merged_data"])
              /\ \A r \in Rows(f["rows"]) :
                    /\ PassesFilters(r, f["year_range"], f["peril_coverage"])
                    /\ f["selected_country"] # "All Europe" =>
                          r["country"] = f["selected_country"]

\* the full default year range over a merged table that holds a row without
\* year and a row with one: the first is dropped, the second is kept, on the
\* page and in app.py
FilteredWitness ==
    /\ FiltersApplied
    /\ AppFiltersApplied
    /\ year_range = <<min_year(data), max_year(data)>>
    /\ app_filtered_data["year_range"] = year_range
    /\ peril_coverage = "All Perils"
    /\ \E r \in Rows(merged_data) : IsNaN(r["year"])
    /\ Len(filtered_data) = 1
    /\ Len(merged_data) = 2
    /\ Len(app_filtered_data["rows"]) = 1

\* C26. Deep-dive guard: in every reachable session state, the country
\* analysis is on screen only on a deep-dive page whose session holds a
\* selected_country other than "All Europe", and the warning is on screen only
\* on a deep-dive page whose session holds no selected_country or "All Europe".
DeepDiveGuard ==
    /\ shown = "analysis" =>
          /\ page \in DeepDivePages
          /\ selected_country # Absent
          /\ selected_country # "All Europe"
    /\ shown = "warning" =>
          /\ page \in DeepDivePages
          /\ selected_country \in {Absent, "All Europe"}

\* the warning on 2_Deep_Dive.py for a session that went back from the
\* analysis of a country (its alignment table is still the last one drawn)
DeepDiveGuardWitness ==
    /\ shown = "warning"
    /\ page = "2_Deep_Dive"
    /\ selected_country = "All Europe"
    /\ alignment # Unset

\* C27 as stated. Map-click navigation: a run of an overview page switches
\* the page only when the map reports a country other than the current
\* selected_country; when the map reports the country that is already
\* selected, the run leaves selected_country and the page as they are.
ClickNavigatesOnlyToNewCountry ==
    [][(RunOverview1 \/ RunOverview0) =>
          /\ page' # page => (map_click' # "" /\ map_click' # selected_country)
          /\ (map_click' # "" /\ map_click' = selected_country) =>
                (page' = page /\ selected_country' = selected_country)]_vars

=============================================================================
